---- MODULE Spec2Model ----
(***************************************************************************)
(* Client of the blog platform (frontend/src/App.js, current revision,     *)
(* lines 1-1416): the BlogApp posts cache and selected post, the feed      *)
(* cards, the post detail modal, and the requests they have in flight.     *)
(* The backend is an external collaborator: it is modelled from the        *)
(* specification's data model (section 3) and interface list (section 6).  *)
(* Display-only attributes (author, created_at, updated_at), the image     *)
(* lightbox and the advisory prediction/insights panels are not modelled.  *)
(***************************************************************************)
EXTENDS Naturals, Integers, Sequences, FiniteSets, Bags, TLC

VARIABLES
    token,          \* AuthContext token (App.js:12)
    user,           \* AuthContext user (App.js:11)
    lsToken,        \* localStorage item 'token' (App.js:16, 41, 50)
    lsUser,         \* localStorage item 'user', a JSON text (App.js:20, 42, 51)
    posts,          \* BlogApp posts cache (App.js:1244)
    loading,        \* BlogApp loading flag (App.js:1245)
    selectedPost,   \* BlogApp selected post, shown by the modal (App.js:1246)
    comments,       \* PostDetailModal comment sequence (App.js:118)
    newComment,     \* PostDetailModal comment draft (App.js:119)
    isEditing,      \* PostDetailModal edit mode (App.js:121)
    modalLoading,   \* PostDetailModal loading flag (App.js:122)
    editTitle,      \* PostDetailModal edit fields (App.js:123-126)
    editContent,
    editImages,
    newImages,
    form,           \* CreatePostForm title, content, images, loading (App.js:1060-1063)
    card,           \* per feed card: PostCard showComments/comments/newComment (App.js:668-670)
    srv,            \* backend: post id -> post as the backend serves it to this viewer
    srvComments,    \* backend: post id -> comment sequence
    reqs,           \* bag of fetch calls in flight
    last,           \* history, read by the properties only: the handler step taken last
    clicks          \* user actions left in this run

vars == <<token, user, lsToken, lsUser, posts, loading, selectedPost, comments, newComment,
          isEditing, modalLoading, editTitle, editContent, editImages,
          newImages, form, card, srv, srvComments, reqs, last, clicks>>

session == <<token, user, lsToken, lsUser>>
modal == <<comments, newComment, isEditing, modalLoading, editTitle,
           editContent, editImages, newImages>>
backend == <<srv, srvComments>>
blogApp == <<posts, loading, selectedPost, modal, form, card>>

-----------------------------------------------------------------------------
(* Bounds *)

MaxClicks == 3      \* user actions in one run
MaxEditClicks == 5  \* user actions in one run of the edit flow
MaxDeleteClicks == 3 \* user actions in one run of the delete flow
MaxSessionClicks == 4 \* user actions in one run of the session flow
MaxCreateClicks == 4 \* user actions in one run of the create flow
MaxAuthorClicks == 4 \* user actions in one run of the submit flows
MaxPatchClicks == 3 \* responses applied in one run of the patch flow
MaxLikes == 1       \* likes a post carries in the patch flow
MaxMainClicks == 4  \* user actions in one run from the login screen on
MaxRoleClicks == 5  \* user actions in one run with two logins
MaxInflight == 2    \* fetch calls the user's actions may have in flight at once
MaxComments == 1    \* comments the backend accepts in one run

Null == "null"
\* The posts the backend holds: post 1, whose id the placeholder post of
\* loadPosts shares, and post 2.
PostIds == {1, 2}
NumPosts == Cardinality(PostIds)
Actions == {"like", "dislike"}

-----------------------------------------------------------------------------
(* Posts *)

BoolNum(b) == IF b THEN 1 ELSE 0

\* String.prototype.trim on the drafts the model types: all-blank strings trim to "".
Trim(s) == IF s \in {"", " "} THEN "" ELSE s

\* The post the backend holds for id p before any interaction.
InitialPost(p) ==
    [id |-> p, title |-> "t", content |-> "c", images |-> <<"a">>,
     likes |-> 0, dislikes |-> 0, user_liked |-> FALSE, user_disliked |-> FALSE,
     comment_count |-> 0]

DemoPostId == 1
DemoLikes == 5
DemoCommentCount == 2

\* The placeholder post loadPosts puts in the cache on a non-success response.
\* It carries no user_liked/user_disliked: both read as falsy.
DemoPost ==
    [id |-> DemoPostId, title |-> "Welcome", content |-> "demo", images |-> <<>>,
     likes |-> DemoLikes, dislikes |-> 0, user_liked |-> FALSE, user_disliked |-> FALSE,
     comment_count |-> DemoCommentCount]

Ids(ps) == [i \in 1..Len(ps) |-> ps[i].id]
IdSet(ps) == {ps[i].id : i \in 1..Len(ps)}
HasPost(ps, p) == p \in IdSet(ps)
Entry(ps, p) == ps[CHOOSE i \in 1..Len(ps) : ps[i].id = p]

\* Mutant: a returned post the list does not hold is appended.
PatchPostsUpsert(prevPosts, updatedPost) ==
    IF HasPost(prevPosts, updatedPost.id)
    THEN [i \in 1..Len(prevPosts) |->
            IF prevPosts[i].id = updatedPost.id THEN updatedPost ELSE prevPosts[i]]
    ELSE Append(prevPosts, updatedPost)

\* Mutant: the returned post is moved to the head of the list.
PatchPostsMoveFirst(prevPosts, updatedPost) ==
    <<updatedPost>> \o SelectSeq(prevPosts, LAMBDA q : q.id # updatedPost.id)

\* prevPosts.map(p => p.id === updatedPost.id ? updatedPost : p)
PatchPosts(prevPosts, updatedPost) ==
    [i \in 1..Len(prevPosts) |->
        IF prevPosts[i].id = updatedPost.id THEN updatedPost ELSE prevPosts[i]]

-----------------------------------------------------------------------------
(* Backend *)

\* POST /posts/{id}/like and /dislike: the mutual-exclusion toggle of the data model.
SrvToggle(post, action) ==
    IF action = "like"
    THEN IF post.user_liked
         THEN [post EXCEPT !.likes = @ - 1, !.user_liked = FALSE]
         ELSE [post EXCEPT !.likes = @ + 1, !.user_liked = TRUE,
                           !.dislikes = @ - BoolNum(post.user_disliked),
                           !.user_disliked = FALSE]
    ELSE IF post.user_disliked
         THEN [post EXCEPT !.dislikes = @ - 1, !.user_disliked = FALSE]
         ELSE [post EXCEPT !.dislikes = @ + 1, !.user_disliked = TRUE,
                           !.likes = @ - BoolNum(post.user_liked),
                           !.user_liked = FALSE]

\* POST /auth/twitter: the token and user the backend issues for a reader or an admin.
SrvSession(who) ==
    [token |-> IF who = "admin" THEN "adm" ELSE "tok",
     user |-> [username |-> "u", is_admin |-> who = "admin"]]

\* A deleted post leaves an entry with id 0 in srv.
Exists(p) == srv[p].id # 0

\* POST /posts: the id the backend gives the next post, 0 when it has no room.
FreeIds == {p \in PostIds : ~Exists(p)}
NextId == IF FreeIds = {} THEN 0 ELSE CHOOSE p \in FreeIds : \A q \in FreeIds : p <= q

\* The post the backend stores for the body of a POST /posts.
Created(p, body) ==
    [InitialPost(p) EXCEPT !.title = body.title, !.content = body.content,
                           !.images = body.images]

\* GET /posts: every post that exists, in id order.
SrvList == SelectSeq([i \in 1..NumPosts |-> srv[i]], LAMBDA q : q.id # 0)

RECURSIVE CommentsUpTo(_)
CommentsUpTo(n) == IF n = 0 THEN 0 ELSE Len(srvComments[n]) + CommentsUpTo(n - 1)
TotalComments == CommentsUpTo(NumPosts)

-----------------------------------------------------------------------------
(* Fetch calls in flight *)

\* kind: "posts" GET /posts, "interact" POST /posts/{id}/{like|dislike},
\*       "comments" GET /posts/{id}/comments, "comment" POST /posts/{id}/comments,
\*       "save" PUT /posts/{id}, "delete" DELETE /posts/{id},
\*       "login" POST /auth/twitter, "create" POST /posts
\* arg:  the action of an interact call; the component ("modal", "card", or "gone"
\*       once that card is unmounted) whose closure a comment call resumes
\* st:   "sent", then "ok" (success response), "bad" (non-success response)
\*       or "rejected" (the fetch promise rejects)
\* plist/clist: the request body of a save, and the response payload
\* ovl:  history: an interact call for the same post was in flight when this one was issued
Req(kind, post, arg) ==
    [kind |-> kind, post |-> post, arg |-> arg, st |-> "sent",
     plist |-> <<>>, clist |-> <<>>, ovl |-> FALSE]

InFlight == BagToSet(reqs)
Add(bag, r) == bag (+) SetToBag({r})
Remove(bag, r) == bag (-) SetToBag({r})
Quiescent == InFlight = {}
InteractInFlight(p) == \E r \in InFlight : r.kind = "interact" /\ r.post = p

\* A user action is possible: the feed or modal is rendered, and the run's bounds allow it.
CanClick == ~loading /\ clicks > 0
CanSend == BagCardinality(reqs) < MaxInflight

NoPost == [InitialPost(0) EXCEPT !.title = "", !.content = "", !.images = <<>>]
NoUser == [username |-> "", is_admin |-> FALSE]
NoForm == [title |-> "", content |-> "", images |-> <<>>, loading |-> FALSE]
FreshCard == [showComments |-> FALSE, comments |-> <<>>, newComment |-> ""]
\* A history record: the handler step, its post, its outcome or input, the cache
\* entry of that post before the step, the ovl mark of the call it resumed, and
\* what the step gave its caller or the user ("alert", "rejected", or "" for nothing);
\* kept from step to step: the post as the last successful save returned it, the
\* post and cached comment_count of the last successful comment, and the ids of
\* the posts a DELETE call has succeeded for.
NoComment == [post |-> 0, before |-> 0]
Step(op, post, arg, before) ==
    [op |-> op, post |-> post, arg |-> arg, before |-> before, ovl |-> FALSE,
     signal |-> "", saved |-> last.saved, commented |-> last.commented,
     deleted |-> last.deleted]
EntryOrNone(ps, p) == IF HasPost(ps, p) THEN Entry(ps, p) ELSE NoPost
Commented(p) == [post |-> p, before |-> EntryOrNone(posts, p).comment_count]

isOpen == selectedPost.id # 0

\* {user?.is_admin && ...}: the Edit and Delete buttons of the detail view and
\* of the card, and the create form, are rendered for an admin only.
AdminControls == user.is_admin

\* localStorage: getItem gives null for an absent item; the user item holds the
\* JSON text of the user object.
NoItem == <<>>
Stringify(u) == <<"json", u.username, u.is_admin>>
Parse(text) == [username |-> text[2], is_admin |-> text[3]]

\* The storage as login leaves it beside the token and user it sets.
Persisted == lsToken = token /\ lsUser = Stringify(user)

-----------------------------------------------------------------------------
(* Initial state: BlogApp has just mounted and its effect has called loadPosts *)

\* The state BlogApp and its components are constructed with.
Unmounted ==
    /\ posts = <<>>
    /\ loading = TRUE
    /\ selectedPost = NoPost
    /\ comments = <<>>
    /\ newComment = ""
    /\ isEditing = FALSE
    /\ modalLoading = FALSE
    /\ editTitle = ""
    /\ editContent = ""
    /\ editImages = <<>>
    /\ newImages = <<>>
    /\ form = NoForm
    /\ card = [p \in PostIds |-> FreshCard]

InitClient ==
    /\ Unmounted
    /\ reqs = SetToBag({Req("posts", 0, "")})
    /\ last = [op |-> "mount", post |-> 0, arg |-> "", before |-> NoPost, ovl |-> FALSE,
               signal |-> "", saved |-> NoPost, commented |-> NoComment,
               deleted |-> {}]

\* A backend whose posts nobody has liked, disliked or commented yet.
InitBackend ==
    /\ srv = [p \in PostIds |-> InitialPost(p)]
    /\ srvComments = [p \in PostIds |-> <<>>]

\* A backend that holds up to MaxComments comments on post 1 from earlier sessions.
InitBackendCommented ==
    \E n \in 0..MaxComments :
        /\ srvComments = [p \in PostIds |-> IF p = 1 THEN [i \in 1..n |-> i] ELSE <<>>]
        /\ srv = [p \in PostIds |->
                    [InitialPost(p) EXCEPT !.comment_count = IF p = 1 THEN n ELSE 0]]

InitApp == InitClient /\ InitBackend

\* A logged-in session: login has set token and user together.
Init ==
    /\ token = "tok"
    /\ user \in {[username |-> "u", is_admin |-> a] : a \in BOOLEAN}
    /\ Persisted
    /\ clicks = MaxClicks
    /\ InitApp

\* The session as the components can receive it from AuthContext: login sets
\* token and user from the response (data.token, data.user), so the token is
\* absent beside a user when the response carried none.
InitContext ==
    /\ token \in {Null, "tok"}
    /\ user \in {[username |-> "u", is_admin |-> a] : a \in BOOLEAN}
    /\ Persisted
    /\ clicks = MaxClicks
    /\ InitApp

\* An admin session with a longer run, for the edit flow alone.
InitEdit ==
    /\ token = "tok"
    /\ user = [username |-> "u", is_admin |-> TRUE]
    /\ Persisted
    /\ clicks = MaxEditClicks
    /\ InitClient
    /\ InitBackendCommented

\* The first start in a browser profile: AuthProvider has just mounted, nothing
\* is persisted, and its restore effect is about to run.
InitSession ==
    /\ token = Null
    /\ user = NoUser
    /\ lsToken = Null
    /\ lsUser = NoItem
    /\ Unmounted
    /\ reqs = EmptyBag
    /\ last = [op |-> "start", post |-> 0, arg |-> "", before |-> NoPost, ovl |-> FALSE,
               signal |-> "", saved |-> NoPost, commented |-> NoComment,
               deleted |-> {}]
    /\ clicks = MaxSessionClicks
    /\ InitBackend

\* A backend that holds post 1 and has room for one more.
InitBackendRoom ==
    /\ srv = [p \in PostIds |-> IF p = 1 THEN InitialPost(p) ELSE NoPost]
    /\ srvComments = [p \in PostIds |-> <<>>]

\* An admin session, for the create flow.
InitCreate ==
    /\ token = "tok"
    /\ user = [username |-> "u", is_admin |-> TRUE]
    /\ Persisted
    /\ clicks = MaxCreateClicks
    /\ InitClient
    /\ InitBackendRoom

\* An admin session, for the three forms that submit text.
InitAuthor ==
    /\ token = "tok"
    /\ user = [username |-> "u", is_admin |-> TRUE]
    /\ Persisted
    /\ clicks = MaxAuthorClicks
    /\ InitClient
    /\ InitBackendRoom

\* The posts a cache can hold for id p, and the lists of them the backend can
\* have served: one entry per id, in either order.
PostValues(p) ==
    {[InitialPost(p) EXCEPT !.likes = k, !.user_liked = k > 0] : k \in 0..MaxLikes}
CacheLists ==
    {<<>>}
    \cup {<<a>> : a \in UNION {PostValues(p) : p \in PostIds}}
    \cup {<<a, b>> : a \in PostValues(1), b \in PostValues(2)}
    \cup {<<b, a>> : a \in PostValues(1), b \in PostValues(2)}

\* A loaded feed with any cache, for the patch alone.
InitPatch ==
    /\ token = "tok"
    /\ user = [username |-> "u", is_admin |-> FALSE]
    /\ Persisted
    /\ posts \in CacheLists
    /\ loading = FALSE
    /\ selectedPost = NoPost
    /\ comments = <<>>
    /\ newComment = ""
    /\ isEditing = FALSE
    /\ modalLoading = FALSE
    /\ editTitle = ""
    /\ editContent = ""
    /\ editImages = <<>>
    /\ newImages = <<>>
    /\ form = NoForm
    /\ card = [p \in PostIds |-> FreshCard]
    /\ reqs = EmptyBag
    /\ last = [op |-> "mount", post |-> 0, arg |-> "", before |-> NoPost, ovl |-> FALSE,
               signal |-> "", saved |-> NoPost, commented |-> NoComment,
               deleted |-> {}]
    /\ clicks = MaxPatchClicks
    /\ InitBackend

\* The first start, with a run long enough to log in and submit something.
InitMain ==
    /\ token = Null
    /\ user = NoUser
    /\ lsToken = Null
    /\ lsUser = NoItem
    /\ Unmounted
    /\ reqs = EmptyBag
    /\ last = [op |-> "start", post |-> 0, arg |-> "", before |-> NoPost, ovl |-> FALSE,
               signal |-> "", saved |-> NoPost, commented |-> NoComment,
               deleted |-> {}]
    /\ clicks = MaxMainClicks
    /\ InitBackendRoom

\* The first start, with a run long enough for two logins and an edit.
InitRoles ==
    /\ token = Null
    /\ user = NoUser
    /\ lsToken = Null
    /\ lsUser = NoItem
    /\ Unmounted
    /\ reqs = EmptyBag
    /\ last = [op |-> "start", post |-> 0, arg |-> "", before |-> NoPost, ovl |-> FALSE,
               signal |-> "", saved |-> NoPost, commented |-> NoComment,
               deleted |-> {}]
    /\ clicks = MaxRoleClicks
    /\ InitBackendRoom

\* An admin session, for the delete flow.
InitDelete ==
    /\ token = "tok"
    /\ user = [username |-> "u", is_admin |-> TRUE]
    /\ Persisted
    /\ clicks = MaxDeleteClicks
    /\ InitApp

-----------------------------------------------------------------------------
(* The network and the backend *)

\* The backend serves the call with a success response.
ServerOk(r) ==
    /\ r \in InFlight /\ r.st = "sent"
    /\ CASE r.kind = "posts" ->
              /\ reqs' = Add(Remove(reqs, r), [r EXCEPT !.st = "ok", !.plist = SrvList])
              /\ UNCHANGED backend
         [] r.kind = "interact" ->
              /\ Exists(r.post)
              /\ srv' = [srv EXCEPT ![r.post] = SrvToggle(@, r.arg)]
              /\ reqs' = Add(Remove(reqs, r),
                             [r EXCEPT !.st = "ok", !.plist = <<srv'[r.post]>>])
              /\ UNCHANGED srvComments
         [] r.kind = "comments" ->
              /\ Exists(r.post)
              /\ reqs' = Add(Remove(reqs, r),
                             [r EXCEPT !.st = "ok", !.clist = srvComments[r.post]])
              /\ UNCHANGED backend
         [] r.kind = "comment" ->
              /\ Exists(r.post)
              /\ TotalComments < MaxComments
              /\ srvComments' = [srvComments EXCEPT ![r.post] = Append(@, TotalComments + 1)]
              /\ srv' = [srv EXCEPT ![r.post].comment_count = @ + 1]
              /\ reqs' = Add(Remove(reqs, r), [r EXCEPT !.st = "ok"])
         [] r.kind = "save" ->
              /\ Exists(r.post)
              /\ srv' = [srv EXCEPT ![r.post] =
                            [@ EXCEPT !.title = r.plist[1].title,
                                      !.content = r.plist[1].content,
                                      !.images = r.plist[1].images]]
              /\ reqs' = Add(Remove(reqs, r),
                             [r EXCEPT !.st = "ok", !.plist = <<srv'[r.post]>>])
              /\ UNCHANGED srvComments
         [] r.kind = "login" ->
              /\ reqs' = Add(Remove(reqs, r),
                             [r EXCEPT !.st = "ok", !.plist = <<SrvSession(r.arg)>>])
              /\ UNCHANGED backend
         [] r.kind = "create" ->
              /\ NextId # 0
              /\ srv' = [srv EXCEPT ![NextId] = Created(NextId, r.plist[1])]
              /\ reqs' = Add(Remove(reqs, r),
                             [r EXCEPT !.st = "ok", !.plist = <<srv'[NextId]>>])
              /\ UNCHANGED srvComments
         [] r.kind = "delete" ->
              /\ Exists(r.post)
              /\ srv' = [srv EXCEPT ![r.post] = NoPost]
              /\ srvComments' = [srvComments EXCEPT ![r.post] = <<>>]
              /\ reqs' = Add(Remove(reqs, r), [r EXCEPT !.st = "ok"])
    /\ UNCHANGED <<session, form, posts, loading, selectedPost, modal, card, last, clicks>>

\* The backend answers with a non-success status and changes nothing.
ServerBad(r) ==
    /\ r \in InFlight /\ r.st = "sent"
    /\ reqs' = Add(Remove(reqs, r), [r EXCEPT !.st = "bad"])
    /\ UNCHANGED <<session, form, posts, loading, selectedPost, modal, card, backend, last, clicks>>

\* The transport fails, before the call reaches the backend or with its response
\* on the way back: the fetch promise rejects.
NetReject(r) ==
    /\ r \in InFlight /\ r.st # "rejected"
    /\ reqs' = Add(Remove(reqs, r), [r EXCEPT !.st = "rejected", !.plist = <<>>, !.clist = <<>>])
    /\ UNCHANGED <<session, form, posts, loading, selectedPost, modal, card, backend, last, clicks>>

Resolved(r) == r \in InFlight /\ r.st # "sent"

-----------------------------------------------------------------------------
(* BlogApp *)

\* A feed card lives as long as its post id is in the cache (key={post.id});
\* a card that unmounts loses its state, and calls it has in flight resume
\* closures of a component that is gone.
CardsFor(ps) == [p \in PostIds |-> IF HasPost(ps, p) THEN card[p] ELSE FreshCard]
Orphan(r, ps) ==
    IF r.arg = "card" /\ ~HasPost(ps, r.post) THEN [r EXCEPT !.arg = "gone"] ELSE r
RECURSIVE OrphanAll(_, _, _)
OrphanAll(bag, todo, ps) ==
    IF todo = {} THEN bag
    ELSE LET r == CHOOSE x \in todo : TRUE
             n == CopiesIn(r, bag)
             moved == [x \in {Orphan(r, ps)} |-> n]
         IN OrphanAll(IF Orphan(r, ps) = r THEN bag
                      ELSE ([x \in (DOMAIN bag) \ {r} |-> bag[x]]) (+) moved,
                      todo \ {r}, ps)

\* What loadPosts stores for a resolved GET /posts.
LoadedPosts(r) ==
    IF r.st = "ok" THEN r.plist
    ELSE IF r.st = "bad" THEN <<DemoPost>>
    ELSE <<>>

\* loadPosts, from the response on.
LoadPostsDone(r) ==
    /\ Resolved(r) /\ r.kind = "posts"
    /\ posts' = LoadedPosts(r)
    /\ loading' = FALSE
    /\ card' = CardsFor(posts')
    /\ reqs' = OrphanAll(Remove(reqs, r), BagToSet(Remove(reqs, r)), posts')
    /\ last' = Step("loadPosts", 0, r.st, NoPost)
    /\ UNCHANGED <<session, form, selectedPost, modal, backend, clicks>>

\* BlogApp.handleInteract up to the fetch: no state is changed before the call.
SendInteract(postId, action) ==
    Add(reqs, [Req("interact", postId, action) EXCEPT !.ovl = InteractInFlight(postId)])

\* Mutant: a failed call empties the cache, as the catch of loadPosts does.
InteractPatchedOrCleared(r) == IF r.st = "ok" THEN PatchPosts(posts, r.plist[1]) ELSE <<>>

\* BlogApp.handleInteract, from the response on.
InteractPatched(r) == IF r.st = "ok" THEN PatchPosts(posts, r.plist[1]) ELSE posts

HandleInteractDone(r) ==
    /\ Resolved(r) /\ r.kind = "interact"
    /\ posts' = InteractPatched(r)
    /\ reqs' = Remove(reqs, r)
    /\ last' = [Step("interact", r.post, r.st, EntryOrNone(posts, r.post))
                EXCEPT !.ovl = r.ovl]
    /\ UNCHANGED <<session, form, loading, selectedPost, modal, card, backend, clicks>>

\* Mutant: seeding the edit images leaves them as they are.
SeedImagesKept(post) == editImages

\* setEditImages(post.images || []), in the modal's effect and in handleCancelEdit.
SeedImages(post) == post.images

\* setPosts(prevPosts => prevPosts.map(...)) with the post a response carried.
Patch(updatedPost) ==
    /\ clicks > 0
    /\ posts' = PatchPosts(posts, updatedPost)
    /\ last' = Step("patch", updatedPost.id, "", EntryOrNone(posts, updatedPost.id))
    /\ clicks' = clicks - 1
    /\ UNCHANGED <<session, form, loading, selectedPost, modal, card, backend, reqs>>

\* handlePostClick, and the modal's effect that runs when its post changes:
\* loadComments is called and the edit state is reset from the post.
HandlePostClick(p) ==
    /\ CanClick /\ ~isOpen /\ HasPost(posts, p)
    /\ selectedPost' = Entry(posts, p)
    /\ reqs' = Add(reqs, Req("comments", p, "modal"))
    /\ editTitle' = selectedPost'.title
    /\ editContent' = selectedPost'.content
    /\ editImages' = SeedImages(selectedPost')
    /\ newImages' = <<>>
    /\ isEditing' = FALSE
    /\ last' = Step("open", p, "", Entry(posts, p))
    /\ clicks' = clicks - 1
    /\ UNCHANGED <<session, form, posts, loading, comments, newComment, modalLoading, card, backend>>

\* onClose={() => setSelectedPost(null)}: the backdrop and the close button.
OnClose ==
    /\ CanClick /\ isOpen
    /\ selectedPost' = NoPost
    /\ last' = Step("close", selectedPost.id, "", EntryOrNone(posts, selectedPost.id))
    /\ clicks' = clicks - 1
    /\ UNCHANGED <<session, form, posts, loading, modal, card, backend, reqs>>

-----------------------------------------------------------------------------
(* PostCard: the feed is under the modal's full-screen backdrop while it is open *)

CardShown(p) == CanClick /\ ~isOpen /\ HasPost(posts, p)

\* Mutant: the card calls onInteract without looking at the token.
CardInteractReqsUnguarded(p, action) == SendInteract(p, action)

\* PostCard.handleInteract: the like and dislike buttons (disabled without a user).
CardInteractReqs(p, action) == IF token = Null THEN reqs ELSE SendInteract(p, action)

PostCardHandleInteract(p, action) ==
    /\ CardShown(p) /\ user # NoUser
    /\ CanSend
    /\ reqs' = CardInteractReqs(p, action)
    /\ last' = Step("cardInteract", p, action, Entry(posts, p))
    /\ clicks' = clicks - 1
    /\ UNCHANGED <<session, form, posts, loading, selectedPost, modal, card, backend>>

\* The comment-count button: toggles the card's comment panel, loading on opening.
PostCardToggleComments(p) ==
    /\ CardShown(p)
    /\ ~card[p].showComments => CanSend
    /\ card' = [card EXCEPT ![p].showComments = ~@]
    /\ reqs' = IF card[p].showComments THEN reqs ELSE Add(reqs, Req("comments", p, "card"))
    /\ last' = Step("cardToggle", p, "", Entry(posts, p))
    /\ clicks' = clicks - 1
    /\ UNCHANGED <<session, form, posts, loading, selectedPost, modal, backend>>

Drafts == {" ", "x"}

\* onChange of the card's comment input.
PostCardSetNewComment(p, v) ==
    /\ CardShown(p) /\ card[p].showComments /\ user # NoUser
    /\ card[p].newComment # v
    /\ card' = [card EXCEPT ![p].newComment = v]
    /\ last' = Step("cardType", p, v, Entry(posts, p))
    /\ clicks' = clicks - 1
    /\ UNCHANGED <<session, form, posts, loading, selectedPost, modal, backend, reqs>>

\* PostCard.handleComment up to the fetch.
CommentBlocked(draft) == Trim(draft) = "" \/ token = Null

\* handleComment, from the response on: setNewComment('') after a success
\* response and in the catch; a non-success response leaves the draft.
DraftAfter(r, draft) == IF r.st \in {"ok", "rejected"} THEN "" ELSE draft

PostCardHandleComment(p) ==
    /\ CardShown(p) /\ card[p].showComments /\ user # NoUser
    /\ ~CommentBlocked(card[p].newComment) => CanSend
    /\ reqs' = IF CommentBlocked(card[p].newComment) THEN reqs
               ELSE Add(reqs, Req("comment", p, "card"))
    /\ last' = Step("cardComment", p, card[p].newComment, Entry(posts, p))
    /\ clicks' = clicks - 1
    /\ UNCHANGED <<session, form, posts, loading, selectedPost, modal, card, backend>>

\* PostCard.loadComments, from the response on.
CardComments(r, old) ==
    IF r.st = "ok" THEN r.clist ELSE IF r.st = "rejected" THEN <<>> ELSE old

PostCardLoadCommentsDone(r) ==
    /\ Resolved(r) /\ r.kind = "comments" /\ r.arg \in {"card", "gone"}
    /\ card' = IF r.arg = "card"
               THEN [card EXCEPT ![r.post].comments = CardComments(r, @)]
               ELSE card
    /\ reqs' = Remove(reqs, r)
    /\ last' = Step("cardLoadComments", r.post, r.st, EntryOrNone(posts, r.post))
    /\ UNCHANGED <<session, form, posts, loading, selectedPost, modal, backend, clicks>>

\* PostCard.handleComment, from the response on: the draft is cleared and the
\* card's comments are loaded again; the posts cache is not touched.
PostCardHandleCommentDone(r) ==
    /\ Resolved(r) /\ r.kind = "comment" /\ r.arg \in {"card", "gone"}
    /\ card' = IF r.arg = "card"
               THEN [card EXCEPT ![r.post].newComment = DraftAfter(r, @)]
               ELSE card
    /\ reqs' = IF r.st = "ok"
               THEN Add(Remove(reqs, r), Req("comments", r.post, r.arg))
               ELSE Remove(reqs, r)
    /\ last' = [Step("cardCommentDone", r.post, r.st, EntryOrNone(posts, r.post))
                EXCEPT !.commented = IF r.st = "ok" THEN Commented(r.post) ELSE @]
    /\ UNCHANGED <<session, form, posts, loading, selectedPost, modal, backend, clicks>>

-----------------------------------------------------------------------------
(* PostDetailModal *)

Viewing == CanClick /\ isOpen /\ ~isEditing
Editing == CanClick /\ isOpen /\ isEditing

\* Mutant: the edit controls stay enabled while a save is loading.
ControlsDisabledNever == FALSE

\* disabled={loading}: Save, Cancel, the edit inputs and the image buttons while
\* a save is loading.
ControlsDisabled == modalLoading

\* What the detail view renders: nothing, the post, or the edit form.
View == IF ~isOpen THEN "Closed" ELSE IF isEditing THEN "Editing" ELSE "Viewing"

\* PostDetailModal.handleInteract: the modal's like and dislike buttons.
ModalInteractReqs(action) ==
    IF token = Null THEN reqs ELSE SendInteract(selectedPost.id, action)

ModalHandleInteract(action) ==
    /\ Viewing /\ user # NoUser
    /\ CanSend
    /\ reqs' = ModalInteractReqs(action)
    /\ last' = Step("modalInteract", selectedPost.id, action,
                    EntryOrNone(posts, selectedPost.id))
    /\ clicks' = clicks - 1
    /\ UNCHANGED <<session, form, posts, loading, selectedPost, modal, card, backend>>

\* Mutant: a success response leaves the comments as they were.
ModalCommentsKept(r) == IF r.st = "rejected" THEN <<>> ELSE comments

\* PostDetailModal.loadComments, from the response on. The component instance
\* is the same whichever post it shows, so the result lands in its comments.
ModalComments(r) ==
    IF r.st = "ok" THEN r.clist ELSE IF r.st = "rejected" THEN <<>> ELSE comments

LoadCommentsDone(r) ==
    /\ Resolved(r) /\ r.kind = "comments" /\ r.arg = "modal"
    /\ comments' = ModalComments(r)
    /\ reqs' = Remove(reqs, r)
    /\ last' = Step("loadComments", r.post, r.st, EntryOrNone(posts, r.post))
    /\ UNCHANGED <<session, form, posts, loading, selectedPost, newComment, isEditing,
                   modalLoading, editTitle, editContent, editImages, newImages,
                   card, backend, clicks>>

\* onChange of the modal's comment input.
SetNewComment(v) ==
    /\ Viewing /\ user # NoUser
    /\ newComment # v
    /\ newComment' = v
    /\ last' = Step("type", selectedPost.id, v, EntryOrNone(posts, selectedPost.id))
    /\ clicks' = clicks - 1
    /\ UNCHANGED <<session, form, posts, loading, selectedPost, comments, isEditing,
                   modalLoading, editTitle, editContent, editImages, newImages,
                   card, backend, reqs>>

\* PostDetailModal.handleComment up to the fetch.
HandleComment ==
    /\ Viewing /\ user # NoUser
    /\ ~CommentBlocked(newComment) => CanSend
    /\ reqs' = IF CommentBlocked(newComment) THEN reqs
               ELSE Add(reqs, Req("comment", selectedPost.id, "modal"))
    /\ last' = Step("comment", selectedPost.id, newComment,
                    EntryOrNone(posts, selectedPost.id))
    /\ clicks' = clicks - 1
    /\ UNCHANGED <<session, form, posts, loading, selectedPost, modal, card, backend>>

\* PostDetailModal.handleComment, from the response on: the draft is cleared,
\* then loadComments() and onComment() (= loadPosts) are called, neither awaited.
CommentFollowUps(r) ==
    IF r.st = "ok"
    THEN Add(Add(Remove(reqs, r), Req("comments", r.post, "modal")), Req("posts", 0, ""))
    ELSE Remove(reqs, r)

HandleCommentDone(r) ==
    /\ Resolved(r) /\ r.kind = "comment" /\ r.arg = "modal"
    /\ newComment' = DraftAfter(r, newComment)
    /\ reqs' = CommentFollowUps(r)
    /\ last' = [Step("commentDone", r.post, r.st, EntryOrNone(posts, r.post))
                EXCEPT !.commented = IF r.st = "ok" THEN Commented(r.post) ELSE @]
    /\ UNCHANGED <<session, form, posts, loading, selectedPost, comments, isEditing,
                   modalLoading, editTitle, editContent, editImages, newImages,
                   card, backend, clicks>>

\* handleEdit: the admin's Edit button, shown while not editing.
HandleEdit ==
    /\ Viewing /\ AdminControls
    /\ isEditing' = TRUE
    /\ last' = Step("edit", selectedPost.id, "", EntryOrNone(posts, selectedPost.id))
    /\ clicks' = clicks - 1
    /\ UNCHANGED <<session, form, posts, loading, selectedPost, comments, newComment,
                   modalLoading, editTitle, editContent, editImages, newImages,
                   card, backend, reqs>>

\* The edit fields are as the effect seeded them from the post.
Unedited ==
    /\ editTitle = selectedPost.title /\ editContent = selectedPost.content
    /\ editImages = selectedPost.images /\ newImages = <<>>

\* handleCancelEdit: the Cancel button, disabled while a save is loading.
HandleCancelEdit ==
    /\ Editing /\ ~ControlsDisabled
    /\ isEditing' = FALSE
    /\ editTitle' = selectedPost.title
    /\ editContent' = selectedPost.content
    /\ editImages' = SeedImages(selectedPost)
    /\ newImages' = <<>>
    /\ last' = Step("cancelEdit", selectedPost.id, IF Unedited THEN "" ELSE "edited",
                    EntryOrNone(posts, selectedPost.id))
    /\ clicks' = clicks - 1
    /\ UNCHANGED <<session, form, posts, loading, selectedPost, comments, newComment,
                   modalLoading, card, backend, reqs>>

Texts == {" ", "u"}

\* onChange of the title and content inputs, disabled while a save is loading.
SetEditTitle(v) ==
    /\ Editing /\ ~ControlsDisabled
    /\ editTitle # v
    /\ editTitle' = v
    /\ last' = Step("editTitle", selectedPost.id, v, EntryOrNone(posts, selectedPost.id))
    /\ clicks' = clicks - 1
    /\ UNCHANGED <<session, form, posts, loading, selectedPost, comments, newComment, isEditing,
                   modalLoading, editContent, editImages, newImages, card, backend, reqs>>

SetEditContent(v) ==
    /\ Editing /\ ~ControlsDisabled
    /\ editContent # v
    /\ editContent' = v
    /\ last' = Step("editContent", selectedPost.id, v, EntryOrNone(posts, selectedPost.id))
    /\ clicks' = clicks - 1
    /\ UNCHANGED <<session, form, posts, loading, selectedPost, comments, newComment, isEditing,
                   modalLoading, editTitle, editImages, newImages, card, backend, reqs>>

\* editImages.filter(img => img !== imageToRemove)
Without(images, imageToRemove) == SelectSeq(images, LAMBDA img : img # imageToRemove)

\* newImages.filter((_, i) => i !== index), index from 1 here
WithoutIndex(images, index) ==
    [i \in 1..(Len(images) - 1) |-> IF i < index THEN images[i] ELSE images[i + 1]]

Range(f) == {f[i] : i \in DOMAIN f}

HandleImageRemove(imageToRemove) ==
    /\ Editing /\ ~ControlsDisabled
    /\ imageToRemove \in Range(editImages)
    /\ editImages' = Without(editImages, imageToRemove)
    /\ last' = Step("imageRemove", selectedPost.id, imageToRemove,
                    EntryOrNone(posts, selectedPost.id))
    /\ clicks' = clicks - 1
    /\ UNCHANGED <<session, form, posts, loading, selectedPost, comments, newComment, isEditing,
                   modalLoading, editTitle, editContent, newImages, card, backend, reqs>>

MaxNewImages == 1
Files == {"f"}
Images == {"a"}

HandleNewImageChange(file) ==
    /\ Editing /\ ~ControlsDisabled
    /\ Len(newImages) < MaxNewImages
    /\ newImages' = newImages \o <<file>>
    /\ last' = Step("newImage", selectedPost.id, file, EntryOrNone(posts, selectedPost.id))
    /\ clicks' = clicks - 1
    /\ UNCHANGED <<session, form, posts, loading, selectedPost, comments, newComment, isEditing,
                   modalLoading, editTitle, editContent, editImages, card, backend, reqs>>

HandleNewImageRemove(index) ==
    /\ Editing /\ ~ControlsDisabled
    /\ index \in 1..Len(newImages)
    /\ newImages' = WithoutIndex(newImages, index)
    /\ last' = Step("newImageRemove", selectedPost.id, "", EntryOrNone(posts, selectedPost.id))
    /\ clicks' = clicks - 1
    /\ UNCHANGED <<session, form, posts, loading, selectedPost, comments, newComment, isEditing,
                   modalLoading, editTitle, editContent, editImages, card, backend, reqs>>

\* handleSaveEdit up to the fetch: the form the PUT carries.
SaveBlocked == Trim(editTitle) = "" \/ Trim(editContent) = ""
SaveBody ==
    [selectedPost EXCEPT !.title = editTitle, !.content = editContent,
                         !.images = editImages \o newImages]

HandleSaveEdit ==
    /\ Editing /\ ~ControlsDisabled
    /\ ~SaveBlocked => CanSend
    /\ modalLoading' = IF SaveBlocked THEN modalLoading ELSE TRUE
    /\ reqs' = IF SaveBlocked THEN reqs
               ELSE Add(reqs, [Req("save", selectedPost.id, "") EXCEPT !.plist = <<SaveBody>>])
    /\ last' = Step("save", selectedPost.id, "", EntryOrNone(posts, selectedPost.id))
    /\ clicks' = clicks - 1
    /\ UNCHANGED <<session, form, posts, loading, selectedPost, comments, newComment, isEditing,
                   editTitle, editContent, editImages, newImages, card, backend>>

\* handleSaveEdit, from the response on: on success onPostUpdate() (= loadPosts,
\* not awaited) and onClose(); on failure an alert; loading is cleared in any case.
SaveFollowUps(r) ==
    IF r.st = "ok" THEN Add(Remove(reqs, r), Req("posts", 0, "")) ELSE Remove(reqs, r)
SelectedAfterSave(r) == IF r.st = "ok" THEN NoPost ELSE selectedPost

HandleSaveEditDone(r) ==
    /\ Resolved(r) /\ r.kind = "save"
    /\ reqs' = SaveFollowUps(r)
    /\ selectedPost' = SelectedAfterSave(r)
    /\ modalLoading' = FALSE
    /\ last' = [Step("saveDone", r.post, r.st, EntryOrNone(posts, r.post))
                EXCEPT !.saved = IF r.st = "ok" THEN r.plist[1] ELSE @]
    /\ UNCHANGED <<session, form, posts, loading, comments, newComment, isEditing,
                   editTitle, editContent, editImages, newImages, card, backend, clicks>>

-----------------------------------------------------------------------------
(* Deleting a post: the admin's Delete buttons of the detail view and of the card *)

\* Mutant: the call is issued whatever window.confirm returned.
DeleteReqsUnasked(p, confirmed, from) == Add(reqs, Req("delete", p, from))

\* if (window.confirm(...)) fetch(DELETE /posts/{id}); the token is not looked at.
DeleteReqs(p, confirmed, from) ==
    IF confirmed THEN Add(reqs, Req("delete", p, from)) ELSE reqs

Answer(confirmed) == IF confirmed THEN "confirmed" ELSE "declined"

\* PostDetailModal.handleDelete up to the fetch.
HandleDelete(confirmed) ==
    /\ Viewing /\ AdminControls
    /\ confirmed => CanSend
    /\ reqs' = DeleteReqs(selectedPost.id, confirmed, "modal")
    /\ last' = Step("delete", selectedPost.id, Answer(confirmed),
                    EntryOrNone(posts, selectedPost.id))
    /\ clicks' = clicks - 1
    /\ UNCHANGED <<session, form, posts, loading, selectedPost, modal, card, backend>>

\* What a resolved DELETE leaves in flight: onPostDelete() (= loadPosts) on success.
DeleteFollowUps(r) ==
    IF r.st = "ok" THEN Add(Remove(reqs, r), Req("posts", 0, "")) ELSE Remove(reqs, r)

\* alert('Failed to delete post') on a non-success response and in the catch.
DeleteSignal(r) == IF r.st = "ok" THEN "" ELSE "alert"

DeletedAfter(r) == IF r.st = "ok" THEN last.deleted \cup {r.post} ELSE last.deleted

\* PostDetailModal.handleDelete, from the response on: onPostDelete(); onClose().
HandleDeleteDone(r) ==
    /\ Resolved(r) /\ r.kind = "delete" /\ r.arg = "modal"
    /\ reqs' = DeleteFollowUps(r)
    /\ selectedPost' = IF r.st = "ok" THEN NoPost ELSE selectedPost
    /\ last' = [Step("deleteDone", r.post, r.st, EntryOrNone(posts, r.post))
                EXCEPT !.signal = DeleteSignal(r), !.deleted = DeletedAfter(r)]
    /\ UNCHANGED <<session, form, posts, loading, modal, card, backend, clicks>>

\* The card's delete button up to the fetch.
PostCardDelete(p, confirmed) ==
    /\ CardShown(p) /\ AdminControls
    /\ confirmed => CanSend
    /\ reqs' = DeleteReqs(p, confirmed, "card")
    /\ last' = Step("cardDelete", p, Answer(confirmed), Entry(posts, p))
    /\ clicks' = clicks - 1
    /\ UNCHANGED <<session, form, posts, loading, selectedPost, modal, card, backend>>

\* The card's delete button, from the response on: onPostDelete() is BlogApp's
\* loadPosts, so it also runs when the card itself is gone.
PostCardDeleteDone(r) ==
    /\ Resolved(r) /\ r.kind = "delete" /\ r.arg \in {"card", "gone"}
    /\ reqs' = DeleteFollowUps(r)
    /\ last' = [Step("cardDeleteDone", r.post, r.st, EntryOrNone(posts, r.post))
                EXCEPT !.signal = DeleteSignal(r), !.deleted = DeletedAfter(r)]
    /\ UNCHANGED <<session, form, posts, loading, selectedPost, modal, card, backend, clicks>>

-----------------------------------------------------------------------------
(* CreatePostForm: rendered above the feed for an admin *)

FormShown == CanClick /\ ~isOpen /\ AdminControls

\* onChange of the form's title and content inputs.
SetTitle(v) ==
    /\ FormShown
    /\ form.title # v
    /\ form' = [form EXCEPT !.title = v]
    /\ last' = Step("title", 0, v, NoPost)
    /\ clicks' = clicks - 1
    /\ UNCHANGED <<session, posts, loading, selectedPost, modal, card, backend, reqs>>

SetContent(v) ==
    /\ FormShown
    /\ form.content # v
    /\ form' = [form EXCEPT !.content = v]
    /\ last' = Step("content", 0, v, NoPost)
    /\ clicks' = clicks - 1
    /\ UNCHANGED <<session, posts, loading, selectedPost, modal, card, backend, reqs>>

FileLists == {<<"f">>}

\* handleImageChange: the chosen files replace the earlier choice.
HandleImageChange(fileList) ==
    /\ FormShown
    /\ form.images # fileList
    /\ form' = [form EXCEPT !.images = fileList]
    /\ last' = Step("images", 0, "", NoPost)
    /\ clicks' = clicks - 1
    /\ UNCHANGED <<session, posts, loading, selectedPost, modal, card, backend, reqs>>

\* CreatePostForm.handleSubmit up to the fetch: the form the POST carries.
SubmitBlocked == Trim(form.title) = "" \/ Trim(form.content) = ""
CreateBody ==
    [NoPost EXCEPT !.title = form.title, !.content = form.content,
                   !.images = form.images]

\* Mutant: the form is sent whatever its fields hold.
SubmitReqsUnchecked == Add(reqs, [Req("create", 0, "") EXCEPT !.plist = <<CreateBody>>])

SubmitReqs ==
    IF SubmitBlocked THEN reqs
    ELSE Add(reqs, [Req("create", 0, "") EXCEPT !.plist = <<CreateBody>>])

\* The Publish button is disabled while a creation is loading.
HandleSubmit ==
    /\ FormShown /\ ~form.loading
    /\ ~SubmitBlocked => CanSend
    /\ form' = IF SubmitBlocked THEN form ELSE [form EXCEPT !.loading = TRUE]
    /\ reqs' = SubmitReqs
    /\ last' = Step("submit", 0, IF SubmitBlocked THEN "blank" ELSE "", NoPost)
    /\ clicks' = clicks - 1
    /\ UNCHANGED <<session, posts, loading, selectedPost, modal, card, backend>>

\* Mutant: nothing is reloaded after a creation.
CreateFollowUpsNone(r) == Remove(reqs, r)

\* handleSubmit, from the response on: on success the fields are cleared and
\* onPostCreated() (= loadPosts) is called; otherwise an alert; loading is
\* cleared in any case.
CreateFollowUps(r) ==
    IF r.st = "ok" THEN Add(Remove(reqs, r), Req("posts", 0, "")) ELSE Remove(reqs, r)
FormAfter(r) == IF r.st = "ok" THEN NoForm ELSE [form EXCEPT !.loading = FALSE]
CreateSignal(r) == IF r.st = "ok" THEN "" ELSE "alert"

HandleSubmitDone(r) ==
    /\ Resolved(r) /\ r.kind = "create"
    /\ form' = FormAfter(r)
    /\ reqs' = CreateFollowUps(r)
    /\ last' = [Step("submitDone", 0, r.st, NoPost) EXCEPT !.signal = CreateSignal(r)]
    /\ UNCHANGED <<session, posts, loading, selectedPost, modal, card, backend, clicks>>

-----------------------------------------------------------------------------
(* AuthProvider, TwitterLogin and the Logout button *)

Started == last.op # "start"

\* BlogApp and its components go away; the next ones are constructed anew.
BlogAppUnmounts ==
    /\ posts' = <<>>
    /\ loading' = TRUE
    /\ selectedPost' = NoPost
    /\ comments' = <<>>
    /\ newComment' = ""
    /\ isEditing' = FALSE
    /\ modalLoading' = FALSE
    /\ editTitle' = ""
    /\ editContent' = ""
    /\ editImages' = <<>>
    /\ newImages' = <<>>
    /\ form' = NoForm
    /\ card' = [p \in PostIds |-> FreshCard]

\* BlogApp mounts when AppContent first sees a user: its effect calls loadPosts.
BlogAppMounts(bag) == Add(bag, Req("posts", 0, ""))

\* The calls that outlive BlogApp: the others resume closures of unmounted
\* components, whose state updates are dropped.
LoginCalls(bag) == [r \in {x \in DOMAIN bag : x.kind = "login"} |-> bag[r]]

\* Mutant: the effect sets the token and forgets the user.
RestoredUserNone(savedToken, savedUser) == NoUser

\* The restore effect: setToken(savedToken) if there is one, and only then
\* setUser(JSON.parse(savedUser)) if there is one.
RestoredToken(savedToken) == savedToken
RestoredUser(savedToken, savedUser) ==
    IF savedToken # Null /\ savedUser # NoItem THEN Parse(savedUser) ELSE NoUser

Restore ==
    /\ ~Started
    /\ token' = RestoredToken(lsToken)
    /\ user' = RestoredUser(lsToken, lsUser)
    /\ reqs' = IF user' # NoUser THEN BlogAppMounts(reqs) ELSE reqs
    /\ last' = Step("restore", 0, "", NoPost)
    /\ UNCHANGED <<lsToken, lsUser, blogApp, backend, clicks>>

Whos == {"reader", "admin"}

\* TwitterLogin.handleLogin and login up to the fetch; the login screen is shown
\* while there is no user.
HandleLogin(who) ==
    /\ Started /\ user = NoUser /\ clicks > 0
    /\ CanSend
    /\ reqs' = Add(reqs, Req("login", 0, who))
    /\ last' = Step("handleLogin", 0, who, NoPost)
    /\ clicks' = clicks - 1
    /\ UNCHANGED <<session, blogApp, backend>>

TheSession == [token |-> token, user |-> user, lsToken |-> lsToken, lsUser |-> lsUser]

\* Mutant: login sets the user and no token.
LoginSessionNoToken(r) ==
    IF r.st = "ok"
    THEN [token |-> Null, user |-> r.plist[1].user,
          lsToken |-> Null, lsUser |-> Stringify(r.plist[1].user)]
    ELSE TheSession

\* Mutant: login sets the state and persists nothing.
LoginSessionUnsaved(r) ==
    IF r.st = "ok"
    THEN [TheSession EXCEPT !.token = r.plist[1].token, !.user = r.plist[1].user]
    ELSE TheSession

\* login, from the response on: setToken, setUser and the two setItem calls run
\* together after a success response; otherwise the catch only logs.
LoginSession(r) ==
    IF r.st = "ok"
    THEN [token |-> r.plist[1].token, user |-> r.plist[1].user,
          lsToken |-> r.plist[1].token, lsUser |-> Stringify(r.plist[1].user)]
    ELSE TheSession

\* What login gives its caller: its promise fulfils with nothing on every path,
\* the thrown 'Login failed' and a rejected fetch being caught and logged.
LoginSignal(r) == ""

LoginDone(r) ==
    /\ Resolved(r) /\ r.kind = "login"
    /\ token' = LoginSession(r).token
    /\ user' = LoginSession(r).user
    /\ lsToken' = LoginSession(r).lsToken
    /\ lsUser' = LoginSession(r).lsUser
    /\ reqs' = IF user = NoUser /\ user' # NoUser
               THEN BlogAppMounts(Remove(reqs, r)) ELSE Remove(reqs, r)
    /\ last' = [Step("login", 0, r.st, NoPost) EXCEPT !.signal = LoginSignal(r)]
    /\ UNCHANGED <<blogApp, backend, clicks>>

\* Mutant: logout clears the state and leaves the storage.
LogoutSessionKeepsStorage == [TheSession EXCEPT !.token = Null, !.user = NoUser]

\* logout: removeItem('token'), removeItem('user'), setToken(null), setUser(null).
LogoutSession == [token |-> Null, user |-> NoUser, lsToken |-> Null, lsUser |-> NoItem]

\* The Logout button of BlogApp's navbar; BlogApp unmounts with the user.
Logout ==
    /\ Started /\ user # NoUser /\ CanClick
    /\ token' = LogoutSession.token
    /\ user' = LogoutSession.user
    /\ lsToken' = LogoutSession.lsToken
    /\ lsUser' = LogoutSession.lsUser
    /\ BlogAppUnmounts
    /\ reqs' = LoginCalls(reqs)
    /\ last' = Step("logout", 0, "", NoPost)
    /\ clicks' = clicks - 1
    /\ UNCHANGED backend

\* The page is reloaded: the components are constructed again, the calls in
\* flight are abandoned, the storage stays.
Reload ==
    /\ Started /\ clicks > 0
    /\ token' = Null
    /\ user' = NoUser
    /\ BlogAppUnmounts
    /\ reqs' = EmptyBag
    /\ last' = Step("start", 0, "", NoPost)
    /\ clicks' = clicks - 1
    /\ UNCHANGED <<lsToken, lsUser, backend>>

-----------------------------------------------------------------------------
(* Specifications *)

\* The feed and the detail view while viewing: loading, opening and closing,
\* likes and dislikes, comments.
Next ==
    \/ \E r \in InFlight : ServerOk(r)
    \/ \E r \in InFlight : ServerBad(r)
    \/ \E r \in InFlight : NetReject(r)
    \/ \E r \in InFlight : LoadPostsDone(r)
    \/ \E r \in InFlight : HandleInteractDone(r)
    \/ \E r \in InFlight : LoadCommentsDone(r)
    \/ \E r \in InFlight : HandleCommentDone(r)
    \/ \E r \in InFlight : PostCardLoadCommentsDone(r)
    \/ \E r \in InFlight : PostCardHandleCommentDone(r)
    \/ \E p \in PostIds : HandlePostClick(p)
    \/ \E p \in PostIds, action \in Actions : PostCardHandleInteract(p, action)
    \/ \E p \in PostIds : PostCardToggleComments(p)
    \/ \E p \in PostIds, v \in Drafts : PostCardSetNewComment(p, v)
    \/ \E p \in PostIds : PostCardHandleComment(p)
    \/ OnClose
    \/ \E action \in Actions : ModalHandleInteract(action)
    \/ \E v \in Drafts : SetNewComment(v)
    \/ HandleComment

Spec == Init /\ [][Next]_vars

\* The same program under every AuthContext value.
SpecContext == InitContext /\ [][Next]_vars

\* The admin's edit flow in the detail view: opening and closing, editing the
\* fields and images, cancelling, saving.
NextEdit ==
    \/ \E r \in InFlight : ServerOk(r)
    \/ \E r \in InFlight : ServerBad(r)
    \/ \E r \in InFlight : NetReject(r)
    \/ \E r \in InFlight : LoadPostsDone(r)
    \/ \E r \in InFlight : LoadCommentsDone(r)
    \/ \E r \in InFlight : HandleSaveEditDone(r)
    \/ \E p \in PostIds : HandlePostClick(p)
    \/ OnClose
    \/ HandleEdit
    \/ HandleCancelEdit
    \/ \E v \in Texts : SetEditTitle(v)
    \/ \E v \in Texts : SetEditContent(v)
    \/ \E img \in Images : HandleImageRemove(img)
    \/ \E file \in Files : HandleNewImageChange(file)
    \/ \E index \in 1..MaxNewImages : HandleNewImageRemove(index)
    \/ HandleSaveEdit

SpecEdit == InitEdit /\ [][NextEdit]_vars

\* The admin's delete flow: opening and closing, deleting from the detail view
\* and from the card.
NextDelete ==
    \/ \E r \in InFlight : ServerOk(r)
    \/ \E r \in InFlight : ServerBad(r)
    \/ \E r \in InFlight : NetReject(r)
    \/ \E r \in InFlight : LoadPostsDone(r)
    \/ \E r \in InFlight : LoadCommentsDone(r)
    \/ \E r \in InFlight : HandleDeleteDone(r)
    \/ \E r \in InFlight : PostCardDeleteDone(r)
    \/ \E p \in PostIds : HandlePostClick(p)
    \/ OnClose
    \/ \E confirmed \in BOOLEAN : HandleDelete(confirmed)
    \/ \E p \in PostIds, confirmed \in BOOLEAN : PostCardDelete(p, confirmed)

SpecDelete == InitDelete /\ [][NextDelete]_vars

\* The admin's create flow: filling the form and publishing.
NextCreate ==
    \/ \E r \in InFlight : ServerOk(r)
    \/ \E r \in InFlight : ServerBad(r)
    \/ \E r \in InFlight : NetReject(r)
    \/ \E r \in InFlight : LoadPostsDone(r)
    \/ \E r \in InFlight : HandleSubmitDone(r)
    \/ \E v \in Texts : SetTitle(v)
    \/ \E v \in Texts : SetContent(v)
    \/ \E fileList \in FileLists : HandleImageChange(fileList)
    \/ HandleSubmit

SpecCreate == InitCreate /\ [][NextCreate]_vars

\* The forms that submit text: the create form, the edit form and the detail
\* view's comment form.
NextAuthor ==
    \/ \E r \in InFlight : ServerOk(r)
    \/ \E r \in InFlight : ServerBad(r)
    \/ \E r \in InFlight : NetReject(r)
    \/ \E r \in InFlight : LoadPostsDone(r)
    \/ \E r \in InFlight : LoadCommentsDone(r)
    \/ \E r \in InFlight : HandleCommentDone(r)
    \/ \E r \in InFlight : HandleSaveEditDone(r)
    \/ \E r \in InFlight : HandleSubmitDone(r)
    \/ \E p \in PostIds : HandlePostClick(p)
    \/ OnClose
    \/ \E v \in Drafts : SetNewComment(v)
    \/ HandleComment
    \/ HandleEdit
    \/ \E v \in Texts : SetEditTitle(v)
    \/ \E v \in Texts : SetEditContent(v)
    \/ HandleSaveEdit
    \/ \E v \in Texts : SetTitle(v)
    \/ \E v \in Texts : SetContent(v)
    \/ HandleSubmit

SpecAuthor == InitAuthor /\ [][NextAuthor]_vars

\* The cache patch by itself, on any cache and any returned post.
NextPatch == \E p \in PostIds : \E updatedPost \in PostValues(p) : Patch(updatedPost)

SpecPatch == InitPatch /\ [][NextPatch]_vars

\* The application from the login screen on: logging in and out, and every
\* action of the feed, the detail view and the create form that sends a
\* like, dislike, comment, creation, edit or deletion.
NextMain ==
    \/ \E r \in InFlight : ServerOk(r)
    \/ \E r \in InFlight : ServerBad(r)
    \/ \E r \in InFlight : NetReject(r)
    \/ \E r \in InFlight : LoadPostsDone(r)
    \/ \E r \in InFlight : LoginDone(r)
    \/ \E r \in InFlight : HandleInteractDone(r)
    \/ \E r \in InFlight : LoadCommentsDone(r)
    \/ \E r \in InFlight : HandleCommentDone(r)
    \/ \E r \in InFlight : HandleSaveEditDone(r)
    \/ \E r \in InFlight : HandleSubmitDone(r)
    \/ \E r \in InFlight : HandleDeleteDone(r)
    \/ \E r \in InFlight : PostCardDeleteDone(r)
    \/ Restore
    \/ \E who \in Whos : HandleLogin(who)
    \/ Logout
    \/ \E p \in PostIds : HandlePostClick(p)
    \/ \E p \in PostIds, action \in Actions : PostCardHandleInteract(p, action)
    \/ \E action \in Actions : ModalHandleInteract(action)
    \/ \E v \in Drafts : SetNewComment(v)
    \/ HandleComment
    \/ HandleEdit
    \/ HandleSaveEdit
    \/ \E v \in Texts : SetTitle(v)
    \/ \E v \in Texts : SetContent(v)
    \/ HandleSubmit
    \/ \E confirmed \in BOOLEAN : HandleDelete(confirmed)
    \/ \E p \in PostIds, confirmed \in BOOLEAN : PostCardDelete(p, confirmed)

SpecMain == InitMain /\ [][NextMain]_vars

\* The same application over the longer run.
SpecRoles == InitRoles /\ [][NextMain]_vars

\* The session flow: start and restore, login, logout, page reload.
NextSession ==
    \/ \E r \in InFlight : ServerOk(r)
    \/ \E r \in InFlight : ServerBad(r)
    \/ \E r \in InFlight : NetReject(r)
    \/ \E r \in InFlight : LoadPostsDone(r)
    \/ \E r \in InFlight : LoginDone(r)
    \/ Restore
    \/ \E who \in Whos : HandleLogin(who)
    \/ Logout
    \/ Reload

SpecSession == InitSession /\ [][NextSession]_vars

-----------------------------------------------------------------------------
(* Properties *)

SameCounts(e, f) ==
    /\ e.likes = f.likes /\ e.dislikes = f.dislikes
    /\ e.user_liked = f.user_liked /\ e.user_disliked = f.user_disliked

SameEdit(e, f) == e.title = f.title /\ e.content = f.content /\ e.images = f.images

\* f follows e by toggles: the flags exclude each other and each counter has
\* moved by exactly the activations minus the deactivations of its flag.
LockStep(e, f) ==
    /\ ~(f.user_liked /\ f.user_disliked)
    /\ f.likes - e.likes = BoolNum(f.user_liked) - BoolNum(e.user_liked)
    /\ f.dislikes - e.dislikes = BoolNum(f.user_disliked) - BoolNum(e.user_disliked)

\* The cache holds a list the backend served: not the placeholder list of a
\* non-success GET /posts, nor the empty list of a rejected one.
ServedList == Len(posts) = NumPosts

FlagsExclusive == \A i \in 1..Len(posts) : ~(posts[i].user_liked /\ posts[i].user_disliked)

\* C1: through any sequence of like/dislike toggles applied by handleInteract,
\* a cached post never has both flags set, and its likes and dislikes move from
\* their previous values by the activations minus the deactivations of their flag.
C1_TogglesKeepCountersInStep ==
    /\ []FlagsExclusive
    /\ [][\A r \in InFlight :
            (HandleInteractDone(r) /\ r.st = "ok" /\ HasPost(posts, r.post))
                => LockStep(Entry(posts, r.post), Entry(posts', r.post))]_vars

\* Either none of the four values differs between e and f, or all four are
\* those of a like applied to the disliked post e.
LikeOnDisliked(e, f) ==
    /\ f.user_liked /\ ~f.user_disliked
    /\ f.likes = e.likes + 1 /\ f.dislikes = e.dislikes - 1
NoneOrAllFour(e, f) == SameCounts(e, f) \/ LikeOnDisliked(e, f)

\* C2: when a like is applied to a post the cache shows as disliked, the step that
\* applies it sets user_liked, clears user_disliked, takes 1 from dislikes and adds
\* 1 to likes, all in that one step, in the cache entry, and the selected post never
\* shows some of the four changes without the others (stated for a cache the
\* backend served, not the placeholder).
C2_LikeOnDislikedIsAtomic ==
    [][\A r \in InFlight :
          (/\ HandleInteractDone(r) /\ r.st = "ok" /\ r.arg = "like"
           /\ ServedList /\ HasPost(posts, r.post) /\ Entry(posts, r.post).user_disliked)
              => /\ LikeOnDisliked(Entry(posts, r.post), Entry(posts', r.post))
                 /\ selectedPost.id = r.post /\ selectedPost.user_disliked
                        => NoneOrAllFour(selectedPost, selectedPost')]_vars

\* C3: once a like/dislike action has finished, the selected post shown by the open
\* modal and the cache entry with the same id hold the same likes, dislikes,
\* user_liked and user_disliked (stated for posts the backend served, not the
\* placeholder).
C3_ModalShowsCacheCounts ==
    (/\ last.op = "interact" /\ isOpen /\ ServedList /\ selectedPost # DemoPost
     /\ selectedPost.id = last.post /\ HasPost(posts, last.post))
        => SameCounts(selectedPost, Entry(posts, last.post))

\* C4: once handleInteract has finished after a failed call, the cached counters of
\* the post are those a fresh GET /posts would return (stated for posts the
\* backend served, not the placeholder).
C4_FailedCallResyncs ==
    (/\ last.op = "interact" /\ last.arg \in {"bad", "rejected"}
     /\ ServedList /\ HasPost(posts, last.post))
        => /\ Entry(posts, last.post).likes = srv[last.post].likes
           /\ Entry(posts, last.post).dislikes = srv[last.post].dislikes

\* C5: without a token, a like or dislike from a feed card or from the modal
\* issues no call and changes neither the posts cache nor the selected post.
C5_NoTokenNoInteraction ==
    [][(/\ token = Null
        /\ \/ \E p \in PostIds, action \in Actions : PostCardHandleInteract(p, action)
           \/ \E action \in Actions : ModalHandleInteract(action))
          => reqs' = reqs /\ posts' = posts /\ selectedPost' = selectedPost]_vars

C5_Witness == token = Null /\ last.op \in {"cardInteract", "modalInteract"}

C7_QuiescentCacheMatchesBackend ==
    (/\ Quiescent /\ last.op = "interact" /\ last.arg = "ok"
     /\ ServedList /\ HasPost(posts, last.post))
        => SameCounts(Entry(posts, last.post), srv[last.post])

OneEntryPerId == Cardinality(IdSet(posts)) = Len(posts)

\* C8: a like/dislike response, also one of a call issued while another for the
\* same post was in flight, leaves the ids and order of the cache as they were and
\* one entry per id, sets the entry of its post to its payload on success, and
\* changes no other entry; a failed one changes nothing. Responses apply in
\* arrival order, so the entry is the payload of the last successful arrival.
C8_ResponsesApplyInArrivalOrder ==
    /\ []OneEntryPerId
    /\ [][\A r \in InFlight : HandleInteractDone(r) =>
            /\ Ids(posts') = Ids(posts)
            /\ \A i \in 1..Len(posts) :
                  posts'[i] = IF r.st = "ok" /\ posts[i].id = r.post
                              THEN r.plist[1] ELSE posts[i]]_vars

\* Two calls for one post overlapped, both have resolved, and the one that
\* arrived last carried the older backend state.
C8_Witness ==
    /\ Quiescent /\ last.op = "interact" /\ last.arg = "ok"
    /\ HasPost(posts, last.post)
    /\ ~SameCounts(Entry(posts, last.post), srv[last.post])

\* C9: once a save has succeeded and nothing is in flight, the feed card of the
\* saved post and the modal, when open on that post, both show the saved title,
\* content and images (stated for posts the backend served, not the placeholder).
C9_SavedValuesShownEverywhere ==
    (/\ last.saved.id # 0 /\ Quiescent
     /\ ServedList /\ HasPost(posts, last.saved.id)
     /\ selectedPost.id = last.saved.id /\ selectedPost # DemoPost)
        => /\ SameEdit(Entry(posts, last.saved.id), last.saved)
           /\ SameEdit(selectedPost, last.saved)

\* C10: once a comment has been posted successfully and nothing is in flight, the
\* cached comment_count of its post is 1 more than when the response arrived
\* (stated for posts the backend served, not the placeholder).
C10_CommentCountIncremented ==
    (/\ last.commented.post # 0 /\ Quiescent
     /\ ServedList /\ HasPost(posts, last.commented.post))
        => Entry(posts, last.commented.post).comment_count = last.commented.before + 1

\* C17: when loadPosts has finished after a failed GET /posts (non-success response
\* or rejected fetch) the posts cache is empty, and the cache never holds the
\* placeholder post, which the backend never returned.
C17_FailedLoadLeavesCacheEmpty ==
    /\ (last.op = "loadPosts" /\ last.arg \in {"bad", "rejected"}) => posts = <<>>
    /\ \A i \in 1..Len(posts) : posts[i] # DemoPost

\* The call r as it would have resolved with a non-success response.
AsBad(r) == [r EXCEPT !.st = "bad"]

\* C18: loadPosts, handleInteract and handleComment (modal and card) leave, after
\* a rejected fetch, the posts cache and the comment draft as they leave them after
\* a non-success response to the same call from the same state.
C18_RejectionLikeNonSuccess ==
    [][\A r \in InFlight : r.st = "rejected" =>
          /\ LoadPostsDone(r) => posts' = LoadedPosts(AsBad(r))
          /\ HandleInteractDone(r) => posts' = InteractPatched(AsBad(r))
          /\ HandleCommentDone(r) => newComment' = DraftAfter(AsBad(r), newComment)
          /\ (PostCardHandleCommentDone(r) /\ r.arg = "card")
                => card'[r.post].newComment = DraftAfter(AsBad(r), card[r.post].newComment)]_vars

\* C19: the detail view only goes Closed -> Viewing, Viewing -> Editing,
\* Editing -> Viewing and Viewing -> Closed, and a successful save leaves it in
\* Viewing of the saved post.
C19_ViewTransitions ==
    [][/\ View' # View =>
            <<View, View'>> \in {<<"Closed", "Viewing">>, <<"Viewing", "Editing">>,
                                 <<"Editing", "Viewing">>, <<"Viewing", "Closed">>}
       /\ \A r \in InFlight : (HandleSaveEditDone(r) /\ r.st = "ok")
            => View' = "Viewing" /\ selectedPost' = r.plist[1]]_vars

\* C20 as claimed: whenever the detail view enters Viewing, from Closed or from
\* Editing, a GET /posts/{id}/comments for its post is issued.
C20_EnteringViewingLoadsComments ==
    [][(View # "Viewing" /\ View' = "Viewing")
          => reqs' = Add(reqs, Req("comments", selectedPost'.id, "modal"))]_vars

\* C20, amended: whenever the detail view is opened on a post (Closed -> Viewing,
\* also on the post it showed before), a GET /posts/{id}/comments for that post is
\* issued, and when a comments call of the view succeeds the view's comment
\* sequence is the returned one, which is the backend's sequence for that post.
C20_OpeningLoadsComments ==
    /\ [][/\ (View = "Closed" /\ View' # "Closed")
              => /\ View' = "Viewing"
                 /\ reqs' = Add(reqs, Req("comments", selectedPost'.id, "modal"))
          /\ \A r \in InFlight : (LoadCommentsDone(r) /\ r.st = "ok")
              => comments' = r.clist]_vars
    /\ [](\A r \in InFlight : (r.kind = "comments" /\ r.st = "ok")
              => r.clist = srvComments[r.post])

\* The view was opened on a post that has comments, and they have arrived.
C20_Witness ==
    /\ last.op = "loadComments" /\ last.arg = "ok" /\ View = "Viewing"
    /\ selectedPost.id = last.post
    /\ comments # <<>> /\ comments = srvComments[last.post]

\* C11: once a DELETE call has succeeded and nothing is in flight, the cache holds
\* no entry with that id; the detail view's successful delete leaves selectedPost
\* null; and a delete attempt on a post whose DELETE has already succeeded
\* changes neither the cache nor selectedPost and raises no alert (stated for a
\* cache the backend served, not the placeholder).
C11_DeleteRemovesAndRepeatIsNoOp ==
    /\ [](\A p \in PostIds :
             (Quiescent /\ p \in last.deleted /\ posts # <<DemoPost>>)
                => ~HasPost(posts, p))
    /\ [][\A r \in InFlight :
             /\ (HandleDeleteDone(r) /\ r.st = "ok") => selectedPost' = NoPost
             /\ (/\ HandleDeleteDone(r) \/ PostCardDeleteDone(r)
                 /\ r.post \in last.deleted /\ posts # <<DemoPost>>)
                   => /\ last'.signal = ""
                      /\ posts' = posts /\ selectedPost' = selectedPost]_vars

\* C12: a declined confirmation issues no call and changes neither the cache nor
\* selectedPost; a DELETE call is issued only by a confirmed delete; the backend
\* deletes a post only on such a call, and a successful reload drops from the
\* cache only posts the backend has deleted.
C12_DeleteOnlyWhenConfirmed ==
    [][/\ (\/ HandleDelete(FALSE)
           \/ \E p \in PostIds : PostCardDelete(p, FALSE))
          => reqs' = reqs /\ posts' = posts /\ selectedPost' = selectedPost
       /\ (\E r \in BagToSet(reqs') :
               /\ r.kind = "delete" /\ r.st = "sent" /\ r.arg # "gone"
               /\ CopiesIn(r, reqs') > CopiesIn(r, reqs))
          => \/ HandleDelete(TRUE)
             \/ \E p \in PostIds : PostCardDelete(p, TRUE)
       /\ \A p \in PostIds :
            /\ (Exists(p) /\ srv'[p].id = 0)
                  => \E r \in InFlight : r.kind = "delete" /\ r.post = p /\ ServerOk(r)
            /\ (\E r \in InFlight : LoadPostsDone(r) /\ r.st = "ok"
                                     /\ HasPost(posts, p) /\ ~HasPost(posts', p))
                  => ~Exists(p)]_vars

\* A confirmed delete has succeeded and the reload has dropped the post.
C12_Witness ==
    \E p \in last.deleted :
        /\ Quiescent /\ ~HasPost(posts, p)
        /\ Len(posts) = NumPosts - 1 /\ posts # <<DemoPost>>

BothOrNeither ==
    /\ (token = Null) <=> (user = NoUser)
    /\ (lsToken = Null) <=> (lsUser = NoItem)

\* C13: through start and restore, login, logout and page reload in any order,
\* token and user are both present or both absent, in memory and in the storage.
C13_TokenAndUserTogether == BothOrNeither

\* A page reload has restored the token and user an earlier login persisted.
C13_Witness == last.op = "restore" /\ token # Null /\ user # NoUser

\* C14: a failed login (non-success response or rejected fetch) leaves the token
\* and user, in memory and in the storage, as they were, and gives its caller an
\* authentication error.
C14_FailedLoginSignalsError ==
    [][\A r \in InFlight : (LoginDone(r) /\ r.st # "ok") =>
          /\ UNCHANGED <<token, user, lsToken, lsUser>>
          /\ last'.signal = "AuthenticationFailed"]_vars

C16_ReloadResumesSession ==
    Started =>
        /\ RestoredToken(lsToken) = token
        /\ RestoredUser(lsToken, lsUser) = user
        /\ BothOrNeither

\* A login has returned and its token and user are both in memory and persisted.
C16_Witness ==
    /\ last.op = "login" /\ last.arg = "ok"
    /\ token # Null /\ lsToken = token /\ lsUser = Stringify(user)

\* C21: when the detail view enters Editing, editTitle, editContent and editImages
\* are the selected post's title, content and images; Cancel, after any edits of
\* the fields and images, puts those three back to the selected post's values,
\* empties newImages, and changes neither the selected post nor the posts cache.
C21_EditSeededAndCancelRestores ==
    [][/\ (View # "Editing" /\ View' = "Editing")
          => /\ editTitle' = selectedPost'.title
             /\ editContent' = selectedPost'.content
             /\ editImages' = selectedPost'.images
       /\ HandleCancelEdit
          => /\ editTitle' = selectedPost.title
             /\ editContent' = selectedPost.content
             /\ editImages' = selectedPost.images
             /\ newImages' = <<>>
             /\ selectedPost' = selectedPost /\ posts' = posts]_vars

\* Cancel has just discarded edited fields.
C21_Witness == last.op = "cancelEdit" /\ last.arg = "edited" /\ Unedited

\* C24: a successful creation issues a GET /posts and leaves the cache to that
\* reload, adding nothing to it itself; a failed creation issues no reload and
\* changes neither the cache nor the form's title, content and images.
C24_CreationReloads ==
    [][\A r \in InFlight : HandleSubmitDone(r) =>
          /\ posts' = posts
          /\ r.st = "ok" => reqs' = Add(Remove(reqs, r), Req("posts", 0, ""))
          /\ r.st # "ok" =>
                /\ reqs' = Remove(reqs, r)
                /\ form'.title = form.title /\ form'.content = form.content
                /\ form'.images = form.images]_vars

\* A post has been created and the reload that followed has brought it.
C24_Witness ==
    /\ last.op = "loadPosts" /\ last.arg = "ok" /\ Len(posts) = NumPosts
    /\ posts[NumPosts].title = "u" /\ form = NoForm

Untouched ==
    /\ reqs' = reqs /\ posts' = posts
    /\ selectedPost' = selectedPost /\ comments' = comments

\* C22: submitting the create form or the edit form with an empty or all-blank
\* title or content, or the comment form with an empty or all-blank text, issues
\* no call and changes neither the posts cache, the selected post nor the
\* comment sequence.
C22_BlankSubmitIsBlocked ==
    [][/\ (HandleSubmit /\ SubmitBlocked) => Untouched
       /\ (HandleSaveEdit /\ SaveBlocked) => Untouched
       /\ (HandleComment /\ Trim(newComment) = "") => Untouched]_vars

\* The create form was submitted with an all-blank field.
C22_Witness ==
    /\ last.op = "submit" /\ last.arg = "blank"
    /\ " " \in {form.title, form.content}

Changed(ps, qs) == {i \in 1..Len(ps) : ps[i] # qs[i]}

\* C23: patching the cache with an updated post for id X keeps the length and
\* the order of the list, puts the updated post in the place of the entry with
\* id X and leaves every other entry as it was; with no entry of id X the list
\* is unchanged.
C23_PatchReplacesOneEntry ==
    [][\A p \in PostIds : \A u \in PostValues(p) : Patch(u) =>
          /\ Len(posts') = Len(posts)
          /\ Ids(posts') = Ids(posts)
          /\ \A i \in Changed(posts, posts') : posts[i].id = p /\ posts'[i] = u
          /\ HasPost(posts, p) => Entry(posts', p) = u
          /\ ~HasPost(posts, p) => posts' = posts]_vars

\* A patch has replaced one entry of a two-post cache with a different post.
C23_Witness ==
    /\ last.op = "patch" /\ Len(posts) = NumPosts
    /\ last.before.id = last.post /\ Entry(posts, last.post) # last.before

\* C25: while the detail view is open, the posts cache holds a post with the
\* selected post's id (stated for a post the backend served and a cache a
\* successful reload has just delivered, the case least in doubt among those
\* the claim covers).
C25_DetailPostInCache ==
    (isOpen /\ selectedPost # DemoPost /\ last.op = "loadPosts" /\ last.arg = "ok")
        => HasPost(posts, selectedPost.id)

\* C26: once the comment requests have all resolved or failed, the open detail
\* view holds no comments or those of the post it shows, never those of a post
\* it showed before (stated for posts the backend served, not the placeholder).
C26_CommentsOfShownPost ==
    (Quiescent /\ isOpen /\ selectedPost # DemoPost)
        => comments \in {<<>>, srvComments[selectedPost.id]}

\* C27: a login call that was in flight when logout ran and resolves before any
\* login is started anew leaves the token and user null and the storage empty.
C27_LateLoginStaysLoggedOut ==
    [][\A r \in InFlight : (last.op = "logout" /\ LoginDone(r)) =>
          /\ token' = Null /\ user' = NoUser
          /\ lsToken' = Null /\ lsUser' = NoItem]_vars

Mutating == {"interact", "comment", "create", "save", "delete"}

\* The calls a step has put in flight (a call whose card has gone is not new).
Issued ==
    {r \in BagToSet(reqs') :
        r.st = "sent" /\ r.arg # "gone" /\ CopiesIn(r, reqs') > CopiesIn(r, reqs)}

\* C28: a user is never present without a token, and every like, dislike,
\* comment, create, edit or delete call is issued while the token is present.
C28_UserImpliesToken ==
    /\ [](user # NoUser => token # Null)
    /\ [][\A r \in Issued : r.kind \in Mutating => token # Null /\ user # NoUser]_vars

\* A logged-in user has issued a call that carries the bearer token.
C28_Witness ==
    /\ user # NoUser /\ token # Null
    /\ \E r \in InFlight : r.kind \in Mutating /\ r.st = "sent"

AdminOnly == {"save", "delete", "create"}

\* C30: an edit, delete or create call is issued only while the user is an
\* admin: no sequence of actions of a reader issues one.
C30_AdminOnlyCalls ==
    [][\A r \in Issued : r.kind \in AdminOnly => user.is_admin]_vars

SavesInFlight ==
    BagCardinality([r \in {x \in DOMAIN reqs : x.kind = "save"} |-> reqs[r]])

\* C29: at most one PUT /posts/{id} is in flight; loading is true exactly while
\* one is; while it is true neither Save nor Cancel acts; and it is false after
\* every save attempt has resolved, whatever the outcome.
C29_OneSaveAtATime ==
    /\ [](SavesInFlight <= 1 /\ (modalLoading <=> SavesInFlight = 1))
    /\ [][/\ modalLoading => ~(HandleSaveEdit \/ HandleCancelEdit)
          /\ \A r \in InFlight : HandleSaveEditDone(r) => modalLoading' = FALSE]_vars

\* A save attempt has failed: the edit form is still shown and enabled again.
C29_Witness ==
    /\ last.op = "saveDone" /\ last.arg \in {"bad", "rejected"}
    /\ View = "Editing" /\ ~modalLoading

====
